---- MODULE Spec2Model ----
(***************************************************************************)
(* Model of city_scrapers/spiders/det_employment_solutions_corp.py: the    *)
(* DetEmploymentSolutionsCorpSpider.  One crawl run fetches the entry page *)
(* (parse), the schedule PDF (_parse_schedule) and the documents page      *)
(* (_parse_documents).  Text is modelled as sequences of one-character     *)
(* strings, so that stripping, splitting, removing a space and strptime    *)
(* are computed on characters.                                             *)
(***************************************************************************)
EXTENDS Integers, Sequences, FiniteSets, TLC

VARIABLES
    pending,        \* requests issued and not yet answered
    callback,       \* the callback due to run on `response`, or "none"
    response,       \* the last response delivered: its callback and its body
    meeting_dates,  \* self.meeting_dates
    docs_link,      \* self.docs_link
    items,          \* the Meeting items yielded so far
    error,          \* the exception a callback raised, or "none"
    pdf_text,       \* raw text extracted from a PDF (text normalizer)
    clean_text      \* the text after the three substitutions, or NotCleaned

vars == <<pending, callback, response, meeting_dates, docs_link, items, error,
          pdf_text, clean_text>>

text_vars == <<pdf_text, clean_text>>

(***************************************************************************)
(* Bounds of the model.                                                    *)
(***************************************************************************)
MaxLinks == 2

MaxMatches == 2

MaxRows == 2

MaxText == 5

(***************************************************************************)
(* Characters and strings.                                                 *)
(***************************************************************************)
Upper == {"A", "B", "C", "D", "E", "F", "G", "H", "I", "J", "K", "L", "M",
          "N", "O", "P", "Q", "R", "S", "T", "U", "V", "W", "X", "Y", "Z"}

Digits == {"0", "1", "2", "3", "4", "5", "6", "7", "8", "9"}

\* Python's \s and str.strip() whitespace, as far as the model's alphabet goes.
IsSpace(c) == c \in {" ", "\t", "\n"}

DigitVal(c) ==
    CASE c = "0" -> 0 [] c = "1" -> 1 [] c = "2" -> 2 [] c = "3" -> 3
      [] c = "4" -> 4 [] c = "5" -> 5 [] c = "6" -> 6 [] c = "7" -> 7
      [] c = "8" -> 8 [] c = "9" -> 9

AllDigits(s) == \A i \in 1..Len(s) : s[i] \in Digits

RECURSIVE ToInt(_)
ToInt(s) ==
    IF s = <<>> THEN 0
    ELSE 10 * ToInt(SubSeq(s, 1, Len(s) - 1)) + DigitVal(s[Len(s)])

LowerChar(c) ==
    CASE c = "A" -> "a" [] c = "B" -> "b" [] c = "C" -> "c" [] c = "D" -> "d"
      [] c = "E" -> "e" [] c = "F" -> "f" [] c = "G" -> "g" [] c = "H" -> "h"
      [] c = "I" -> "i" [] c = "J" -> "j" [] c = "K" -> "k" [] c = "L" -> "l"
      [] c = "M" -> "m" [] c = "N" -> "n" [] c = "O" -> "o" [] c = "P" -> "p"
      [] c = "Q" -> "q" [] c = "R" -> "r" [] c = "S" -> "s" [] c = "T" -> "t"
      [] c = "U" -> "u" [] c = "V" -> "v" [] c = "W" -> "w" [] c = "X" -> "x"
      [] c = "Y" -> "y" [] c = "Z" -> "z"
      [] OTHER -> c

Lower(s) == [i \in 1..Len(s) |-> LowerChar(s[i])]

\* "sub in s" on Python strings.
Contains(s, sub) ==
    \E i \in 0..(Len(s) - Len(sub)) : SubSeq(s, i + 1, i + Len(sub)) = sub

\* str.strip()
RECURSIVE Strip(_)
Strip(s) ==
    IF s = <<>> THEN s
    ELSE IF IsSpace(s[1]) THEN Strip(Tail(s))
    ELSE IF IsSpace(s[Len(s)]) THEN Strip(SubSeq(s, 1, Len(s) - 1))
    ELSE s

\* str.split(sep) for a one-character separator.
RECURSIVE SplitOn(_, _, _, _)
SplitOn(s, sep, cur, acc) ==
    IF s = <<>> THEN Append(acc, cur)
    ELSE IF s[1] = sep THEN SplitOn(Tail(s), sep, <<>>, Append(acc, cur))
    ELSE SplitOn(Tail(s), sep, Append(cur, s[1]), acc)

Split(s, sep) == SplitOn(s, sep, <<>>, <<>>)

\* The maximal runs of non-whitespace characters of s, in order.
RECURSIVE FieldsOf(_, _, _)
FieldsOf(s, cur, acc) ==
    IF s = <<>> THEN (IF cur = <<>> THEN acc ELSE Append(acc, cur))
    ELSE IF IsSpace(s[1])
         THEN FieldsOf(Tail(s), <<>>, IF cur = <<>> THEN acc ELSE Append(acc, cur))
    ELSE FieldsOf(Tail(s), Append(cur, s[1]), acc)

Fields(s) == FieldsOf(s, <<>>, <<>>)

\* str.replace(" ", "", 1)
RECURSIVE ReplaceFirstSpace(_)
ReplaceFirstSpace(s) ==
    IF s = <<>> THEN s
    ELSE IF s[1] = " " THEN Tail(s)
    ELSE <<s[1]>> \o ReplaceFirstSpace(Tail(s))

\* "{} {} {}".format(date_str, year_str, time_str)
Format(date_str, year_str, time_str) ==
    date_str \o <<" ">> \o year_str \o <<" ">> \o time_str

(***************************************************************************)
(* datetime.strptime(s, "%B %d %Y %I:%M %p").  The format's blanks match   *)
(* \s+ and no directive matches whitespace, so s parses exactly when it    *)
(* neither starts nor ends with whitespace and its whitespace-separated    *)
(* fields are month name, day, year, hour:minute, am/pm.                   *)
(***************************************************************************)
MonthNames == <<
    <<"j","a","n","u","a","r","y">>,
    <<"f","e","b","r","u","a","r","y">>,
    <<"m","a","r","c","h">>,
    <<"a","p","r","i","l">>,
    <<"m","a","y">>,
    <<"j","u","n","e">>,
    <<"j","u","l","y">>,
    <<"a","u","g","u","s","t">>,
    <<"s","e","p","t","e","m","b","e","r">>,
    <<"o","c","t","o","b","e","r">>,
    <<"n","o","v","e","m","b","e","r">>,
    <<"d","e","c","e","m","b","e","r">> >>

IsLeap(y) == (y % 4 = 0 /\ y % 100 # 0) \/ y % 400 = 0

DaysInMonth(y, m) ==
    IF m = 2 THEN (IF IsLeap(y) THEN 29 ELSE 28)
    ELSE IF m \in {4, 6, 9, 11} THEN 30 ELSE 31

\* the value standing for strptime raising ValueError
ValueError == [raised |-> "ValueError"]

\* %B: a full month name, case-insensitive; 0 when w is none.
MonthNumber(w) ==
    IF \E m \in 1..12 : MonthNames[m] = Lower(w)
    THEN CHOOSE m \in 1..12 : MonthNames[m] = Lower(w)
    ELSE 0

\* %d, %I and %M accept one or two digits, %Y exactly four.
IsNumber(w, lens, lo, hi) ==
    /\ Len(w) \in lens
    /\ AllDigits(w)
    /\ ToInt(w) >= lo
    /\ ToInt(w) <= hi

Strptime(s) ==
    LET f == Fields(s) IN
    IF s = <<>> \/ IsSpace(s[1]) \/ IsSpace(s[Len(s)]) \/ Len(f) # 5
    THEN ValueError
    ELSE
      LET hm == Split(f[4], ":")
          ap == Lower(f[5])
      IN
      IF /\ MonthNumber(f[1]) # 0
         /\ IsNumber(f[2], {1, 2}, 1, 31)
         /\ IsNumber(f[3], {4}, 1, 9999)
         /\ Len(hm) = 2
         /\ IsNumber(hm[1], {1, 2}, 1, 12)
         /\ IsNumber(hm[2], {1, 2}, 0, 59)
         /\ ap \in {<<"a","m">>, <<"p","m">>}
         /\ ToInt(f[2]) <= DaysInMonth(ToInt(f[3]), MonthNumber(f[1]))
      THEN [year   |-> ToInt(f[3]),
            month  |-> MonthNumber(f[1]),
            day    |-> ToInt(f[2]),
            hour   |-> (ToInt(hm[1]) % 12) + (IF ap = <<"p","m">> THEN 12 ELSE 0),
            minute |-> ToInt(hm[2])]
      ELSE ValueError

\* the probe's time is parsed instead of the entry's
ParseDatetimeOfSentinel(time_str, date_str, year_str) ==
    Strptime(Format(date_str, year_str, <<"1","0",":","3","0"," ","a","m">>))

\* _parse_datetime
_parse_datetime(time_str, date_str, year_str) ==
    Strptime(Format(date_str, year_str, time_str))

(***************************************************************************)
(* The text normalizer: the three substitutions that turn the extracted    *)
(* pdf_text into clean_text.                                               *)
(***************************************************************************)
\* [A-Z0-9:\n ]
InRepeatClass(c) == c \in Upper \cup Digits \cup {":", "\n", " "}

\* [A-Z0-9:]
InJoinClass(c) == c \in Upper \cup Digits \cup {":"}

\* the pattern ([A-Z0-9:\n ]{2})\1 matches at the head of s
RepeatAtHead(s) ==
    /\ Len(s) >= 4
    /\ InRepeatClass(s[1])
    /\ InRepeatClass(s[2])
    /\ s[3] = s[1]
    /\ s[4] = s[2]

\* re.sub(r"([A-Z0-9:\n ]{2})\1", r"\1", s): one pass, left to right, a match
\* consumes its four characters
RECURSIVE CollapseRepeats(_)
CollapseRepeats(s) ==
    IF s = <<>> THEN s
    ELSE IF RepeatAtHead(s)
         THEN <<s[1], s[2]>> \o CollapseRepeats(SubSeq(s, 5, Len(s)))
    ELSE <<s[1]>> \o CollapseRepeats(Tail(s))

\* re.sub(r"(?<=[A-Z0-9:])\n", "", s)
RECURSIVE JoinLines(_)
JoinLines(s) ==
    IF s = <<>> THEN s
    ELSE LET n == Len(s) IN
         IF s[n] = "\n" /\ n > 1 /\ InJoinClass(s[n - 1])
         THEN JoinLines(SubSeq(s, 1, n - 1))
         ELSE Append(JoinLines(SubSeq(s, 1, n - 1)), s[n])

\* .replace("\n", " ")
ReplaceNewlines(s) == [i \in 1..Len(s) |-> IF s[i] = "\n" THEN " " ELSE s[i]]

\* re.sub(r"\s+", " ", s)
RECURSIVE CollapseSpaces(_)
CollapseSpaces(s) ==
    IF s = <<>> THEN s
    ELSE LET n == Len(s) IN
         IF ~IsSpace(s[n]) THEN Append(CollapseSpaces(SubSeq(s, 1, n - 1)), s[n])
         ELSE IF n > 1 /\ IsSpace(s[n - 1]) THEN CollapseSpaces(SubSeq(s, 1, n - 1))
         ELSE Append(CollapseSpaces(SubSeq(s, 1, n - 1)), " ")

\* the whitespace runs are left as they are
NormalizeKeepingRuns(s) == ReplaceNewlines(JoinLines(CollapseRepeats(s)))

\* lines 66-70
Normalize(s) == CollapseSpaces(ReplaceNewlines(JoinLines(CollapseRepeats(s))))

NotCleaned == <<"not cleaned">>

\* the characters raw texts are drawn from: an upper-case letter, a colon, a
\* lower-case letter, newline, blank, tab
TextChars == {"A", ":", "a", "\n", " ", "\t"}

PdfTexts == UNION {[1..k -> TextChars] : k \in 0..MaxText}

InitText ==
    /\ pdf_text \in PdfTexts
    /\ clean_text = NotCleaned
    /\ pending = {}
    /\ callback = "none"
    /\ response = [callback |-> "none", body |-> <<>>]
    /\ meeting_dates = <<>>
    /\ docs_link = ""
    /\ items = <<>>
    /\ error = "none"

\* lines 65-70 of _parse_schedule_pdf
CleanText ==
    /\ clean_text = NotCleaned
    /\ clean_text' = Normalize(pdf_text)
    /\ UNCHANGED <<pdf_text, pending, callback, response, meeting_dates, docs_link,
                   items, error>>

NextText == CleanText

SpecText == InitText /\ [][NextText]_vars

(***************************************************************************)
(* Class attributes of the spider.                                         *)
(***************************************************************************)
\* the generic title of _parse_title
GenericTitle ==
    <<"D","e","t","r","o","i","t"," ","E","m","p","l","o","y","m","e","n","t"," ",
      "S","o","l","u","t","i","o","n","s"," ","C","o","r","p","o","r","a","t","i","o","n">>

start_urls == <<"https://www.descmiworks.com/about-us/public-meetings/">>

location == [name |-> "DESC", address |-> "440 E. Congress, Detroit, MI 48226"]

BOARD == "Board"

COMMITTEE == "Committee"

NOT_CLASSIFIED == "Not classified"

NoResponse == [callback |-> "none", body |-> <<>>]

\* re.search found nothing
NoMatch == <<>>

\* The probe's fixed time, '10:30 am'.
Sentinel == <<"1","0",":","3","0"," ","a","m">>

\* response.urljoin(href) for the site-relative hrefs of the model.
Urljoin(href) == "https://www.descmiworks.com" \o href

Request(url, cb) == [url |-> url, callback |-> cb]

(***************************************************************************)
(* The responses the site can serve.                                       *)
(*   entry page: its <a> elements in document order, each with the joined  *)
(*     text of its text nodes and its href;                                *)
(*   schedule PDF: its cleaned text, given by what the four scans of       *)
(*     _parse_schedule_pdf find in it: the first \d{4} run, whether "440"  *)
(*     occurs, the matches of the two-clock-times pattern (each with the   *)
(*     two clock times found in it) and the matches of the date pattern;   *)
(*   documents page: its meeting-min_inner-wrapper divs in document order, *)
(*     each with the MM/DD/YYYY text of its <p>, the text of its <h3> and  *)
(*     the href of its <a>.                                                *)
(***************************************************************************)
SeqsUpTo(S, n) == UNION {[1..k -> S] : k \in 0..n}

LinkTexts == {
    <<"S","c","h","e","d","u","l","e">>,
    <<"M","i","n","u","t","e","s">>,
    <<"M","i","n","u","t","e","s"," ","S","c","h","e","d","u","l","e">>,
    <<"A","b","o","u","t">> }

Hrefs == {"", "/files/doc"}

EntryPages == SeqsUpTo([text : LinkTexts, href : Hrefs], MaxLinks)

TimeA == <<"9",":","0","0"," ","a","m">>

TimeB == <<"1",":","0","0"," ","p","m">>

\* matched by the clock-time pattern (\s* allows no blank), rejected by strptime
TimeNoBlank == <<"9",":","0","0","a","m">>

\* the matches of the two-clock-times pattern: start before end, start after
\* end, and an end time that strptime rejects
TimePairs == { <<TimeA, TimeB>>, <<TimeB, TimeA>>, <<TimeA, TimeNoBlank>> }

DateStrs == {
    <<"J","u","n","e"," ","9">>,
    <<"J"," ","u","l","y"," ","9">>,
    <<"J","u","n","e"," ","3","1">> }

YearStrs == { <<"2","0","2","2">> }

SchedulePdfs ==
    [year_match : YearStrs \cup {NoMatch},
     has_440    : BOOLEAN,
     time_strs  : SeqsUpTo(TimePairs, MaxMatches),
     date_strs  : SeqsUpTo(DateStrs, MaxMatches)]

\* <p> texts: valid MM/DD/YYYY dates, one with leading whitespace
RowDates == {
    <<" ","6","/","9","/","2","0","2","2">>,
    <<"7","/","1","/","2","0","2","3">> }

Headings == {
    <<"C","o","m","m","i","t","t","e","e"," ","B","o","a","r","d">>,
    <<" ","C","o","m","m","i","t","t","e","e","\n">>,
    <<"b","o","a","r","d"," ","c","o","m","m","i","t","t","e","e">>,
    <<" ">> }

\* the href of the i-th row's <a>
RowHref(i) == <<"/min", i>>

DocumentPages == SeqsUpTo([date : RowDates, heading : Headings], MaxRows)

Bodies(cb) ==
    CASE cb = "parse" -> EntryPages
      [] cb = "_parse_schedule" -> SchedulePdfs
      [] cb = "_parse_documents" -> DocumentPages

(***************************************************************************)
(* parse: the last Schedule link and the last Minutes-but-not-Schedule     *)
(* link of the page.                                                       *)
(***************************************************************************)
RECURSIVE ScanLinks(_, _, _)
ScanLinks(links, schedule_link, docs) ==
    IF links = <<>> THEN [schedule_link |-> schedule_link, docs_link |-> docs]
    ELSE IF Contains(links[1].text, <<"S","c","h","e","d","u","l","e">>)
         THEN ScanLinks(Tail(links), links[1].href, docs)
    ELSE IF Contains(links[1].text, <<"M","i","n","u","t","e","s">>)
         THEN ScanLinks(Tail(links), schedule_link, links[1].href)
    ELSE ScanLinks(Tail(links), schedule_link, docs)

(***************************************************************************)
(* _parse_schedule_pdf from the year search on.                            *)
(***************************************************************************)
\* lines 79-81: one tuple of clock times per match
time_tuples(time_strs) == [i \in 1..Len(time_strs) |-> time_strs[i]]

\* the probe's failure is ignored
ProbedDateUncorrected(date_str, year_str) == date_str

\* lines 91-97: the date string after the probe
ProbedDate(date_str, year_str) ==
    IF Strptime(Format(date_str, year_str, Sentinel)) = ValueError
    THEN ReplaceFirstSpace(date_str)
    ELSE date_str

\* lines 90-104: the loop, from index i on; acc is self.meeting_dates
RECURSIVE ResolveFrom(_, _, _, _, _)
ResolveFrom(i, time_strs, date_strs, year_str, acc) ==
    IF i > Len(time_strs) THEN [meeting_dates |-> acc, error |-> "none"]
    ELSE
      LET date_str == ProbedDate(date_strs[i], year_str)
          time_str == time_tuples(time_strs)[i]
          start    == _parse_datetime(time_str[1], date_str, year_str)
          end      == _parse_datetime(time_str[2], date_str, year_str)
      IN
      IF start = ValueError \/ end = ValueError
      THEN [meeting_dates |-> acc, error |-> "ValueError: time data does not match format"]
      ELSE ResolveFrom(i + 1, time_strs, date_strs, year_str,
                       Append(acc, [start |-> start, end |-> end]))

_validate_location(text) == text.has_440

\* the two lists are paired up to the shorter one
ParseSchedulePdfTruncating(text, dates) ==
    IF text.year_match = NoMatch
    THEN [meeting_dates |-> dates, error |-> "AttributeError: 'NoneType' object has no attribute 'group'"]
    ELSE IF ~_validate_location(text)
    THEN [meeting_dates |-> dates, error |-> "ValueError: Meeting location has changed"]
    ELSE LET n == IF Len(text.time_strs) < Len(text.date_strs)
                  THEN Len(text.time_strs) ELSE Len(text.date_strs)
         IN ResolveFrom(1, SubSeq(text.time_strs, 1, n), SubSeq(text.date_strs, 1, n),
                        text.year_match, dates)

_parse_schedule_pdf(text, dates) ==
    IF text.year_match = NoMatch
    THEN [meeting_dates |-> dates, error |-> "AttributeError: 'NoneType' object has no attribute 'group'"]
    ELSE IF ~_validate_location(text)
    THEN [meeting_dates |-> dates, error |-> "ValueError: Meeting location has changed"]
    ELSE IF Len(time_tuples(text.time_strs)) # Len(text.date_strs)
    THEN [meeting_dates |-> dates,
          error |-> "ValueError: Not all dates can be matched with start and end time"]
    ELSE ResolveFrom(1, text.time_strs, text.date_strs, text.year_match, dates)

(***************************************************************************)
(* The documents page.                                                     *)
(***************************************************************************)
\* (month, year) of datetime(int(date[2]), int(date[0]), int(date[1]))
RowKey(row) ==
    LET date == Split(Strip(row.date), "/")
    IN <<ToInt(date[1]), ToInt(date[3])>>

\* a defaultdict(list) read at key k
Lookup(map, k) == IF k \in DOMAIN map THEN map[k] ELSE <<>>

Put(map, k, v) == [x \in (DOMAIN map) \cup {k} |-> IF x = k THEN v ELSE map[x]]

RECURSIVE LinkMapFrom(_, _, _)
LinkMapFrom(rows, i, link_map) ==
    IF i > Len(rows) THEN link_map
    ELSE LinkMapFrom(rows, i + 1,
            Put(link_map, RowKey(rows[i]),
                Append(Lookup(link_map, RowKey(rows[i])),
                       [title |-> "Minutes", href |-> RowHref(i)])))

_parse_link_map(rows) == LinkMapFrom(rows, 1, <<>>)

\* the first heading of a key is kept
RECURSIVE TitleMapKeepingFirst(_, _, _)
TitleMapKeepingFirst(rows, i, title_map) ==
    IF i > Len(rows) THEN title_map
    ELSE TitleMapKeepingFirst(rows, i + 1,
            IF RowKey(rows[i]) \in DOMAIN title_map THEN title_map
            ELSE Put(title_map, RowKey(rows[i]), Strip(rows[i].heading)))

RECURSIVE TitleMapFrom(_, _, _)
TitleMapFrom(rows, i, title_map) ==
    IF i > Len(rows) THEN title_map
    ELSE TitleMapFrom(rows, i + 1,
            Put(title_map, RowKey(rows[i]), Strip(rows[i].heading)))

_parse_title_map(rows) == TitleMapFrom(rows, 1, <<>>)

DateKey(date) == <<date.start.month, date.start.year>>

\* the looked-up title is returned even when empty
ParseTitleWithoutFallback(date, title_map) == Lookup(title_map, DateKey(date))

_parse_title(date, title_map) ==
    IF Lookup(title_map, DateKey(date)) # <<>>
    THEN Lookup(title_map, DateKey(date))
    ELSE GenericTitle

\* Committee is tested before Board
ClassificationCommitteeFirst(title) ==
    IF Contains(title, <<"C","o","m","m","i","t","t","e","e">>) THEN COMMITTEE
    ELSE IF Contains(title, <<"B","o","a","r","d">>) THEN BOARD
    ELSE NOT_CLASSIFIED

_parse_classification(title) ==
    IF Contains(title, <<"B","o","a","r","d">>) THEN BOARD
    ELSE IF Contains(title, <<"C","o","m","m","i","t","t","e","e">>) THEN COMMITTEE
    ELSE NOT_CLASSIFIED

Meeting(date, link_map, title_map) ==
    [title          |-> _parse_title(date, title_map),
     description    |-> "",
     classification |-> _parse_classification(_parse_title(date, title_map)),
     start          |-> date.start,
     end            |-> date.end,
     all_day        |-> FALSE,
     time_notes     |-> "",
     location       |-> location,
     links          |-> Lookup(link_map, DateKey(date)),
     source         |-> start_urls[1]]

(***************************************************************************)
(* The crawl.                                                              *)
(***************************************************************************)
Init ==
    /\ pending = {}
    /\ callback = "start_requests"
    /\ response = NoResponse
    /\ meeting_dates = <<>>
    /\ docs_link = ""
    /\ items = <<>>
    /\ error = "none"
    /\ pdf_text = <<>>
    /\ clean_text = NotCleaned

\* the framework requests start_urls[0] for parse
start_requests ==
    /\ callback = "start_requests"
    /\ pending' = {Request(start_urls[1], "parse")}
    /\ callback' = "none"
    /\ UNCHANGED <<response, meeting_dates, docs_link, items, error, text_vars>>

\* a fetch completes and its response is handed to the request's callback
Deliver ==
    /\ callback = "none"
    /\ \E req \in pending :
         \E body \in Bodies(req.callback) :
            /\ pending' = pending \ {req}
            /\ callback' = req.callback
            /\ response' = [callback |-> req.callback, body |-> body]
    /\ UNCHANGED <<meeting_dates, docs_link, items, error, text_vars>>

\* both follow-up requests are issued from the entry page
ParseRequestingBoth ==
    /\ callback = "parse"
    /\ LET found == ScanLinks(response.body, "", docs_link) IN
         /\ docs_link' = found.docs_link
         /\ IF found.schedule_link # "" /\ found.docs_link # ""
            THEN /\ pending' = pending \cup
                        {Request(Urljoin(found.schedule_link), "_parse_schedule"),
                         Request(Urljoin(found.docs_link), "_parse_documents")}
                 /\ error' = error
            ELSE /\ pending' = pending
                 /\ error' = "ValueError: Required links not found"
    /\ callback' = "none"
    /\ UNCHANGED <<response, meeting_dates, items, text_vars>>

parse ==
    /\ callback = "parse"
    /\ LET found == ScanLinks(response.body, "", docs_link) IN
         /\ docs_link' = found.docs_link
         /\ IF found.schedule_link # "" /\ found.docs_link # ""
            THEN /\ pending' = pending \cup
                        {Request(Urljoin(found.schedule_link), "_parse_schedule")}
                 /\ error' = error
            ELSE /\ pending' = pending
                 /\ error' = "ValueError: Required links not found"
    /\ callback' = "none"
    /\ UNCHANGED <<response, meeting_dates, items, text_vars>>

\* the documents request is issued whatever the PDF parse did
ParseScheduleIgnoringError ==
    /\ callback = "_parse_schedule"
    /\ LET done == _parse_schedule_pdf(response.body, meeting_dates) IN
         /\ meeting_dates' = done.meeting_dates
         /\ error' = done.error
         /\ pending' = pending \cup {Request(Urljoin(docs_link), "_parse_documents")}
    /\ callback' = "none"
    /\ UNCHANGED <<response, docs_link, items, text_vars>>

_parse_schedule ==
    /\ callback = "_parse_schedule"
    /\ LET done == _parse_schedule_pdf(response.body, meeting_dates) IN
         /\ meeting_dates' = done.meeting_dates
         /\ error' = done.error
         /\ IF done.error = "none"
            THEN pending' = pending \cup {Request(Urljoin(docs_link), "_parse_documents")}
            ELSE pending' = pending
    /\ callback' = "none"
    /\ UNCHANGED <<response, docs_link, items, text_vars>>

\* an entry equal to an earlier one is skipped
RECURSIVE Distinct(_)
Distinct(entries) ==
    IF entries = <<>> THEN entries
    ELSE LET n == Len(entries)
             init == Distinct(SubSeq(entries, 1, n - 1))
         IN IF \E j \in 1..(n - 1) : entries[j] = entries[n]
            THEN init ELSE Append(init, entries[n])

ParseDocumentsSkippingRepeats ==
    /\ callback = "_parse_documents"
    /\ LET link_map  == _parse_link_map(response.body)
           title_map == _parse_title_map(response.body)
           dates     == Distinct(meeting_dates)
       IN items' = items \o
            [i \in 1..Len(dates) |-> Meeting(dates[i], link_map, title_map)]
    /\ callback' = "none"
    /\ UNCHANGED <<pending, response, meeting_dates, docs_link, error, text_vars>>

_parse_documents ==
    /\ callback = "_parse_documents"
    /\ LET link_map  == _parse_link_map(response.body)
           title_map == _parse_title_map(response.body)
       IN items' = items \o
            [i \in 1..Len(meeting_dates) |-> Meeting(meeting_dates[i], link_map, title_map)]
    /\ callback' = "none"
    /\ UNCHANGED <<pending, response, meeting_dates, docs_link, error, text_vars>>

Next ==
    \/ start_requests
    \/ Deliver
    \/ parse
    \/ _parse_schedule
    \/ _parse_documents

Spec == Init /\ [][Next]_vars

(***************************************************************************)
(* Properties.                                                             *)
(***************************************************************************)
\* the callback cb has run on the response held in `response`
Handled(cb) == callback = "none" /\ response.callback = cb

ScheduleWord == <<"S","c","h","e","d","u","l","e">>

MinutesWord == <<"M","i","n","u","t","e","s">>

StrptimeMessage == "ValueError: time data does not match format"

MismatchMessage == "ValueError: Not all dates can be matched with start and end time"

\* C1: when the date strings and the time pairs of the PDF differ in number,
\* _parse_schedule_pdf raises and appends nothing; when it returns normally it
\* has appended as many entries as there are date strings and time pairs.
C1_CountMismatchIsFatal ==
    Handled("_parse_schedule") =>
      LET text == response.body IN
        /\ Len(text.date_strs) # Len(text.time_strs)
             => error # "none" /\ meeting_dates = <<>>
        /\ error = "none"
             => /\ Len(meeting_dates) = Len(text.date_strs)
                /\ Len(meeting_dates) = Len(text.time_strs)

C1_Witness ==
    /\ Handled("_parse_schedule")
    /\ response.body.year_match # NoMatch
    /\ response.body.has_440
    /\ Len(response.body.date_strs) = 2
    /\ Len(response.body.time_strs) = 1
    /\ error = MismatchMessage
    /\ meeting_dates = <<>>

\* a required link is missing on the entry page
LinksMissing(page) ==
    \/ ~\E i \in 1..Len(page) : Contains(page[i].text, ScheduleWord)
    \/ ~\E i \in 1..Len(page) : Contains(page[i].text, MinutesWord)

\* the date string at index i, after the one correction, does not parse with
\* the start or the end time of the pair at index i
DateFailsAt(text, i) ==
    LET fixed == ProbedDate(text.date_strs[i], text.year_match) IN
    \/ _parse_datetime(text.time_strs[i][1], fixed, text.year_match) = ValueError
    \/ _parse_datetime(text.time_strs[i][2], fixed, text.year_match) = ValueError

FatalSchedule(text) ==
    \/ text.year_match = NoMatch
    \/ ~text.has_440
    \/ Len(text.date_strs) # Len(text.time_strs)
    \/ \E i \in 1..Len(text.date_strs) : DateFailsAt(text, i)

FatalCondition ==
    \/ Handled("parse") /\ LinksMissing(response.body)
    \/ Handled("_parse_schedule") /\ FatalSchedule(response.body)

\* C2: after a fatal condition the run has raised, no request is outstanding,
\* no callback is due and no Meeting has been yielded.
C2_FatalEmitsNothing ==
    (FatalCondition \/ error # "none") =>
        /\ error # "none"
        /\ items = <<>>
        /\ pending = {}
        /\ callback = "none"

\* the date at the second index fails after the first entry was appended
C2_Witness ==
    /\ Handled("_parse_schedule")
    /\ error = StrptimeMessage
    /\ Len(meeting_dates) = 1
    /\ items = <<>>

\* the rows of the documents page dated in month and year k
RowsAt(rows, k) == {i \in 1..Len(rows) : RowKey(rows[i]) = k}

\* the j-th smallest member of the set I of row numbers
NthOf(I, j) == CHOOSE i \in I : Cardinality({x \in I : x < i}) = j - 1

LinksAt(rows, k) ==
    [j \in 1..Cardinality(RowsAt(rows, k)) |->
        [title |-> "Minutes", href |-> RowHref(NthOf(RowsAt(rows, k), j))]]

LastAt(rows, k) == CHOOSE i \in RowsAt(rows, k) : \A x \in RowsAt(rows, k) : x <= i

TitleAt(rows, k) == Strip(rows[LastAt(rows, k)].heading)

EntryKey(i) == <<meeting_dates[i].start.month, meeting_dates[i].start.year>>

\* C3 as stated: an entry without a row gets no links and the generic title, an
\* entry with rows gets the links and the title stored under its key.
C3_StoredTitleAlwaysUsed ==
    Handled("_parse_documents") =>
      /\ Len(items) = Len(meeting_dates)
      /\ \A i \in 1..Len(items) :
           IF RowsAt(response.body, EntryKey(i)) = {}
           THEN items[i].links = <<>> /\ items[i].title = GenericTitle
           ELSE /\ items[i].links = LinksAt(response.body, EntryKey(i))
                /\ items[i].title = TitleAt(response.body, EntryKey(i))

\* C3 amended: as C3, but a stored title that is empty gives the generic title;
\* links is a sequence in every case.
C3_MissingKeyDegrades ==
    Handled("_parse_documents") =>
      /\ error = "none"
      /\ Len(items) = Len(meeting_dates)
      /\ \A i \in 1..Len(items) :
           /\ DOMAIN items[i].links = 1..Len(items[i].links)
           /\ IF RowsAt(response.body, EntryKey(i)) = {}
              THEN items[i].links = <<>> /\ items[i].title = GenericTitle
              ELSE /\ items[i].links = LinksAt(response.body, EntryKey(i))
                   /\ items[i].title =
                        IF TitleAt(response.body, EntryKey(i)) = <<>>
                        THEN GenericTitle
                        ELSE TitleAt(response.body, EntryKey(i))

\* one entry without a row, one whose rows end in an empty heading
C3_Witness ==
    /\ Handled("_parse_documents")
    /\ \E i \in 1..Len(items) :
         /\ RowsAt(response.body, EntryKey(i)) = {}
         /\ items[i].links = <<>>
         /\ items[i].title = GenericTitle
    /\ \E i \in 1..Len(items) :
         /\ RowsAt(response.body, EntryKey(i)) # {}
         /\ TitleAt(response.body, EntryKey(i)) = <<>>
         /\ items[i].links # <<>>
         /\ items[i].title = GenericTitle

\* C4: the documents handler yields one Meeting per entry of meeting_dates, in
\* the entries' order, each with its entry's start and end.
C4_OneRecordPerEntry ==
    Handled("_parse_documents") =>
      /\ Len(items) = Len(meeting_dates)
      /\ \A i \in 1..Len(meeting_dates) :
           /\ items[i].start = meeting_dates[i].start
           /\ items[i].end = meeting_dates[i].end

\* two equal entries, both emitted
C4_Witness ==
    /\ Handled("_parse_documents")
    /\ Len(meeting_dates) = 2
    /\ meeting_dates[1] = meeting_dates[2]
    /\ Len(items) = 2
    /\ items[1] = items[2]

\* a count of minutes that orders timestamps as datetime does
Instant(t) == (((t.year * 12 + t.month) * 31 + t.day) * 24 + t.hour) * 60 + t.minute

\* minutes after midnight of the clock times the schedule uses
ClockMinutes(time_str) ==
    IF time_str = <<"9",":","0","0"," ","a","m">> THEN 9 * 60
    ELSE IF time_str = <<"1",":","0","0"," ","p","m">> THEN 13 * 60
    ELSE -1

\* C5 as stated: every entry of a successful PDF parse, and every Meeting
\* yielded, starts strictly before it ends.
C5_StartBeforeEnd ==
    /\ error = "none" =>
         \A i \in 1..Len(meeting_dates) :
            Instant(meeting_dates[i].start) < Instant(meeting_dates[i].end)
    /\ \A i \in 1..Len(items) : Instant(items[i].start) < Instant(items[i].end)

\* C5 amended: start and end of an entry lie on the same day, and start is
\* before end exactly when the first clock time of the entry's pair is earlier
\* in the day than the second.
C5_OrderFollowsClockTimes ==
    (Handled("_parse_schedule") /\ error = "none") =>
      \A i \in 1..Len(meeting_dates) :
        LET e == meeting_dates[i]
            pair == response.body.time_strs[i]
        IN /\ e.start.year = e.end.year
           /\ e.start.month = e.end.month
           /\ e.start.day = e.end.day
           /\ e.start.hour * 60 + e.start.minute = ClockMinutes(pair[1])
           /\ e.end.hour * 60 + e.end.minute = ClockMinutes(pair[2])
           /\ (Instant(e.start) < Instant(e.end))
                <=> (ClockMinutes(pair[1]) < ClockMinutes(pair[2]))

\* an entry of a successful parse that ends before it starts
C5_Witness ==
    /\ Handled("_parse_schedule")
    /\ error = "none"
    /\ \E i \in 1..Len(meeting_dates) :
         Instant(meeting_dates[i].end) < Instant(meeting_dates[i].start)

\* a two-character run of the repeat class is immediately repeated in s
HasRepeat(s) ==
    \E i \in 1..(Len(s) - 3) :
        /\ s[i] \in Upper \cup Digits \cup {":", "\n", " "}
        /\ s[i + 1] \in Upper \cup Digits \cup {":", "\n", " "}
        /\ s[i + 2] = s[i]
        /\ s[i + 3] = s[i + 1]

\* C6 as stated: normalizing a normalized text changes nothing.
C6_NormalizeIdempotent ==
    clean_text # NotCleaned => Normalize(clean_text) = clean_text

\* C6 amended: a normalized text holds no newline, no tab and no two adjacent
\* blanks, and normalizing it again changes nothing exactly when it holds no
\* immediately repeated two-character run of the repeat class.
C6_IdempotentUnlessRepeat ==
    clean_text # NotCleaned =>
      /\ \A i \in 1..Len(clean_text) : IsSpace(clean_text[i]) => clean_text[i] = " "
      /\ \A i \in 1..(Len(clean_text) - 1) :
            ~(clean_text[i] = " " /\ clean_text[i + 1] = " ")
      /\ (Normalize(clean_text) = clean_text) <=> ~HasRepeat(clean_text)

\* a normalized text that the joining of lines left with a repeated run
C6_Witness ==
    /\ clean_text # NotCleaned
    /\ HasRepeat(clean_text)
    /\ ~HasRepeat(pdf_text)
    /\ Normalize(clean_text) # clean_text

\* C7: a Meeting's classification is Board when its title contains "Board",
\* else Committee when it contains "Committee", else not classified.
C7_BoardBeforeCommittee ==
    \A i \in 1..Len(items) :
      LET t == items[i].title
          c == items[i].classification
      IN /\ Contains(t, <<"B","o","a","r","d">>) => c = BOARD
         /\ (~Contains(t, <<"B","o","a","r","d">>)
               /\ Contains(t, <<"C","o","m","m","i","t","t","e","e">>)) => c = COMMITTEE
         /\ (~Contains(t, <<"B","o","a","r","d">>)
               /\ ~Contains(t, <<"C","o","m","m","i","t","t","e","e">>)) => c = NOT_CLASSIFIED
         /\ t = GenericTitle => c = NOT_CLASSIFIED
         /\ t = <<"b","o","a","r","d"," ","c","o","m","m","i","t","t","e","e">>
               => c = NOT_CLASSIFIED

\* a title with both words, Committee first, classified as Board
C7_Witness ==
    \E i \in 1..Len(items) :
      /\ items[i].title = <<"C","o","m","m","i","t","t","e","e"," ","B","o","a","r","d">>
      /\ items[i].classification = BOARD

\* s without its first blank
WithoutFirstBlank(s) ==
    IF \E k \in 1..Len(s) : s[k] = " "
    THEN LET k == CHOOSE k \in 1..Len(s) : s[k] = " " /\ \A j \in 1..(k - 1) : s[j] # " "
         IN SubSeq(s, 1, k - 1) \o SubSeq(s, k + 1, Len(s))
    ELSE s

\* the date string the entry at index i is parsed from
ResolvedDate(text, i) ==
    IF Strptime(text.date_strs[i] \o <<" ">> \o text.year_match \o <<" ">> \o Sentinel)
         # ValueError
    THEN text.date_strs[i]
    ELSE WithoutFirstBlank(text.date_strs[i])

\* C8: each entry is parsed from its date string, unchanged when the probe
\* parses and with the first blank removed otherwise, and from its own start
\* and end times; 'J uly 9' of 2022 gives the ninth of July; a corrected
\* string that does not parse ends the loop with strptime's error.
C8_ProbeThenOneCorrection ==
    (Handled("_parse_schedule") /\ error \in {"none", StrptimeMessage}) =>
      LET text == response.body IN
        /\ \A i \in 1..Len(meeting_dates) :
             /\ meeting_dates[i].start =
                  Strptime(Format(ResolvedDate(text, i), text.year_match, text.time_strs[i][1]))
             /\ meeting_dates[i].end =
                  Strptime(Format(ResolvedDate(text, i), text.year_match, text.time_strs[i][2]))
             /\ meeting_dates[i].start # ValueError
             /\ meeting_dates[i].end # ValueError
             /\ text.date_strs[i] = <<"J"," ","u","l","y"," ","9">> =>
                  /\ meeting_dates[i].start.month = 7
                  /\ meeting_dates[i].start.day = 9
                  /\ meeting_dates[i].start.year = 2022
                  /\ meeting_dates[i].start.hour * 60 + meeting_dates[i].start.minute
                       = ClockMinutes(text.time_strs[i][1])
                  /\ meeting_dates[i].end.hour * 60 + meeting_dates[i].end.minute
                       = ClockMinutes(text.time_strs[i][2])
        /\ error = "none" => Len(meeting_dates) = Len(text.date_strs)
        /\ error = StrptimeMessage =>
             LET n == Len(meeting_dates) + 1 IN
               /\ n <= Len(text.date_strs)
               /\ \/ Strptime(Format(ResolvedDate(text, n), text.year_match,
                                     text.time_strs[n][1])) = ValueError
                  \/ Strptime(Format(ResolvedDate(text, n), text.year_match,
                                     text.time_strs[n][2])) = ValueError

\* a 'J uly 9' entry resolved to the ninth of July, 1:00 pm
C8_Witness ==
    /\ Handled("_parse_schedule")
    /\ error = "none"
    /\ \E i \in 1..Len(meeting_dates) :
         /\ response.body.date_strs[i] = <<"J"," ","u","l","y"," ","9">>
         /\ meeting_dates[i].start =
              [year |-> 2022, month |-> 7, day |-> 9, hour |-> 13, minute |-> 0]

RowKeys(rows) == {RowKey(rows[i]) : i \in 1..Len(rows)}

IssuedInOrder ==
    /\ \A r \in pending' \ pending :
         \/ /\ r.callback = "parse"
            /\ callback = "start_requests"
         \/ /\ r.callback = "_parse_schedule"
            /\ callback = "parse"
            /\ \E i \in 1..Len(response.body) : Contains(response.body[i].text, ScheduleWord)
            /\ \E i \in 1..Len(response.body) : Contains(response.body[i].text, MinutesWord)
         \/ /\ r.callback = "_parse_documents"
            /\ callback = "_parse_schedule"
            /\ error' = "none"
            /\ Len(meeting_dates') = Len(response.body.date_strs)
    /\ callback = "_parse_documents" => pending' = pending
    /\ items' # items => callback = "_parse_documents"

\* C10: at most one fetch is outstanding, none while a callback is due, and
\* each request is issued by the handler of the step before it; only the
\* documents handler yields Meetings and it issues no request.
C10_OneFetchInOrder ==
    /\ [](Cardinality(pending) <= 1)
    /\ [](callback \in {"parse", "_parse_schedule", "_parse_documents"} => pending = {})
    /\ [][IssuedInOrder]_vars

\* the documents request is outstanding, the schedule entries are in place
C10_Witness ==
    /\ \E r \in pending : r.callback = "_parse_documents"
    /\ Len(meeting_dates) = 2
    /\ error = "none"
    /\ items = <<>>

====
